---- MODULE Spec2Model ----
(***************************************************************************)
(* MorseWave (src/src/lib.rs): the bidirectional code table and codec      *)
(* (MorseCodec, MorseWave) and the tone scheduler (AudioPlayer).           *)
(*                                                                         *)
(* Strings are sequences of one-character strings.  An f64 is a record     *)
(* [inf, v]: v counts thousandths (60.0 is v = 60000, 0.06 is v = 60), and *)
(* inf marks +infinity (1200.0 / 0.0).  Arithmetic is exact: the rounding  *)
(* of IEEE doubles is not modelled, and the speeds drawn divide 1200.      *)
(***************************************************************************)
EXTENDS Integers, Sequences, FiniteSets, TLC

VARIABLES
    codec,          \* MorseWave.codec: [encode_map, decode_map]
    cin,            \* the caller's argument: [kind, s], a text or a Morse string
    cdone,          \* the codec operations applied so far
    cmorse,         \* the Morse string in hand (given, or returned by encode)
    cdecoded,       \* what morse_to_text returned
    cvalid,         \* what validate_morse returned
    player,         \* "none" | "ok" | "err": the outcome of AudioPlayer::new
    dot_duration,   \* AudioPlayer.dot_duration (f64, milliseconds)
    wpm_arg,        \* the wpm argument of the last new / set_wpm
    current_time,   \* AudioContext.currentTime (f64, seconds)
    pc,             \* "idle" | "playing": where play_morse is
    morse,          \* play_morse: its argument
    cursor,         \* play_morse: index of the next character of morse.chars()
    time,           \* play_morse: the local `time`
    tones,          \* every play_tone call so far: [start, duration, ok, call]
    result,         \* what the last play_morse returned: "none" | "ok" | "err"
    calls           \* number of play_morse calls started

codecVars == << codec, cin, cdone, cmorse, cdecoded, cvalid >>
playerVars == << player, dot_duration, wpm_arg, current_time, pc, morse,
                 cursor, time, tones, result, calls >>
vars == << codec, cin, cdone, cmorse, cdecoded, cvalid, player, dot_duration,
           wpm_arg, current_time, pc, morse, cursor, time, tones, result, calls >>

(***************************************************************************)
(* Bounds of the model.                                                    *)
(***************************************************************************)
MaxTextLen == 3
MaxMorseLen == 3

RECURSIVE BoundedSeq(_, _)
BoundedSeq(S, n) ==
    IF n = 0 THEN { <<>> }
    ELSE LET shorter == BoundedSeq(S, n - 1)
         IN  shorter \cup { Append(s, x) : s \in shorter, x \in S }

(***************************************************************************)
(* MorseCodec                                                              *)
(***************************************************************************)
pairs == <<
    << "A", << ".", "-" >> >>,
    << "B", << "-", ".", ".", "." >> >>,
    << "C", << "-", ".", "-", "." >> >>,
    << "D", << "-", ".", "." >> >>,
    << "E", << "." >> >>,
    << "F", << ".", ".", "-", "." >> >>,
    << "G", << "-", "-", "." >> >>,
    << "H", << ".", ".", ".", "." >> >>,
    << "I", << ".", "." >> >>,
    << "J", << ".", "-", "-", "-" >> >>,
    << "K", << "-", ".", "-" >> >>,
    << "L", << ".", "-", ".", "." >> >>,
    << "M", << "-", "-" >> >>,
    << "N", << "-", "." >> >>,
    << "O", << "-", "-", "-" >> >>,
    << "P", << ".", "-", "-", "." >> >>,
    << "Q", << "-", "-", ".", "-" >> >>,
    << "R", << ".", "-", "." >> >>,
    << "S", << ".", ".", "." >> >>,
    << "T", << "-" >> >>,
    << "U", << ".", ".", "-" >> >>,
    << "V", << ".", ".", ".", "-" >> >>,
    << "W", << ".", "-", "-" >> >>,
    << "X", << "-", ".", ".", "-" >> >>,
    << "Y", << "-", ".", "-", "-" >> >>,
    << "Z", << "-", "-", ".", "." >> >>,
    << "0", << "-", "-", "-", "-", "-" >> >>,
    << "1", << ".", "-", "-", "-", "-" >> >>,
    << "2", << ".", ".", "-", "-", "-" >> >>,
    << "3", << ".", ".", ".", "-", "-" >> >>,
    << "4", << ".", ".", ".", ".", "-" >> >>,
    << "5", << ".", ".", ".", ".", "." >> >>,
    << "6", << "-", ".", ".", ".", "." >> >>,
    << "7", << "-", "-", ".", ".", "." >> >>,
    << "8", << "-", "-", "-", ".", "." >> >>,
    << "9", << "-", "-", "-", "-", "." >> >>,
    << ".", << ".", "-", ".", "-", ".", "-" >> >>,
    << ",", << "-", "-", ".", ".", "-", "-" >> >>,
    << "?", << ".", ".", "-", "-", ".", "." >> >>,
    << "!", << "-", ".", "-", ".", "-", "-" >> >>,
    << "/", << "-", ".", ".", "-", "." >> >>,
    << "(", << "-", ".", "-", "-", "." >> >>,
    << ")", << "-", ".", "-", "-", ".", "-" >> >>,
    << "&", << ".", "-", ".", ".", "." >> >>,
    << ":", << "-", "-", "-", ".", ".", "." >> >>,
    << ";", << "-", ".", "-", ".", "-", "." >> >>,
    << "=", << "-", ".", ".", ".", "-" >> >>,
    << "+", << ".", "-", ".", "-", "." >> >>,
    << "-", << "-", ".", ".", ".", ".", "-" >> >>,
    << "_", << ".", ".", "-", "-", ".", "-" >> >>,
    << "\"", << ".", "-", ".", ".", "-", "." >> >>,
    << "$", << ".", ".", ".", "-", ".", ".", "-" >> >>,
    << "@", << ".", "-", "-", ".", "-", "." >> >>,
    << " ", << "/" >> >>
>>

\* The HashMap left by inserting (ps[i][key], ps[i][val]) for i = 1..n in
\* order: an insert under a key already present replaces its value.
inserted(ps, n, key, val) ==
    [k \in { ps[i][key] : i \in 1..n } |->
        LET last == CHOOSE i \in 1..n :
                        /\ ps[i][key] = k
                        /\ \A j \in (i + 1)..n : ps[j][key] # k
        IN  ps[last][val]]

MorseCodec_new_short ==
    [encode_map |-> inserted(pairs, Len(pairs) - 1, 1, 2),
     decode_map |-> inserted(pairs, Len(pairs) - 1, 2, 1)]

MorseCodec_new ==
    [encode_map |-> inserted(pairs, Len(pairs), 1, 2),
     decode_map |-> inserted(pairs, Len(pairs), 2, 1)]

LowerCase == << "a", "b", "c", "d", "e", "f", "g", "h", "i", "j", "k", "l", "m",
                "n", "o", "p", "q", "r", "s", "t", "u", "v", "w", "x", "y", "z" >>
UpperCase == << "A", "B", "C", "D", "E", "F", "G", "H", "I", "J", "K", "L", "M",
                "N", "O", "P", "Q", "R", "S", "T", "U", "V", "W", "X", "Y", "Z" >>

char_to_lowercase(ch) ==
    IF \E i \in 1..Len(UpperCase) : UpperCase[i] = ch
    THEN LowerCase[CHOOSE i \in 1..Len(UpperCase) : UpperCase[i] = ch]
    ELSE ch

char_to_uppercase(ch) ==
    IF \E i \in 1..Len(LowerCase) : LowerCase[i] = ch
    THEN UpperCase[CHOOSE i \in 1..Len(LowerCase) : LowerCase[i] = ch]
    ELSE ch

to_uppercase(text) == [i \in 1..Len(text) |-> char_to_uppercase(text[i])]

RECURSIVE filter_map_get(_, _)
filter_map_get(m, keys) ==
    IF keys = <<>> THEN <<>>
    ELSE IF Head(keys) \in DOMAIN m
         THEN << m[Head(keys)] >> \o filter_map_get(m, Tail(keys))
         ELSE filter_map_get(m, Tail(keys))

RECURSIVE join(_, _)
join(strs, sep) ==
    IF strs = <<>> THEN <<>>
    ELSE IF Len(strs) = 1 THEN strs[1]
    ELSE strs[1] \o sep \o join(Tail(strs), sep)

join_trailing(strs, sep) ==
    IF strs = <<>> THEN <<>> ELSE join(strs, sep) \o sep

encode_untrimmed(c, text) ==
    join_trailing(filter_map_get(c.encode_map, to_uppercase(text)), << " " >>)

encode(c, text) ==
    join(filter_map_get(c.encode_map, to_uppercase(text)), << " " >>)

RECURSIVE split(_, _)
split(s, sep) ==
    IF \E i \in 1..Len(s) : s[i] = sep
    THEN LET i == CHOOSE k \in 1..Len(s) :
                      s[k] = sep /\ \A j \in 1..(k - 1) : s[j] # sep
         IN  << SubSeq(s, 1, i - 1) >> \o split(SubSeq(s, i + 1, Len(s)), sep)
    ELSE << s >>

decode(c, m) == filter_map_get(c.decode_map, split(m, " "))

is_whitespace(ch) == ch \in { " ", "\t", "\n" }

RECURSIVE split_whitespace(_)
split_whitespace(s) ==
    IF s = <<>> THEN <<>>
    ELSE IF is_whitespace(s[1]) THEN split_whitespace(Tail(s))
    ELSE IF \E i \in 1..Len(s) : is_whitespace(s[i])
         THEN LET i == CHOOSE k \in 1..Len(s) :
                           is_whitespace(s[k])
                           /\ \A j \in 1..(k - 1) : ~is_whitespace(s[j])
              IN  << SubSeq(s, 1, i - 1) >>
                  \o split_whitespace(SubSeq(s, i + 1, Len(s)))
         ELSE << s >>

validate_morse_codes(m) ==
    LET codes == split_whitespace(m)
    IN  \A t \in 1..Len(codes) : codes[t] \in DOMAIN MorseCodec_new.decode_map

validate_morse(m) ==
    LET codes == split_whitespace(m)
    IN  \A t \in 1..Len(codes) :
            \A i \in 1..Len(codes[t]) : codes[t][i] \in { ".", "-", "/" }

(***************************************************************************)
(* The codec's callers: one argument, then the operations applied to it.   *)
(***************************************************************************)
CanonicalAlphabet == { pairs[i][1] : i \in 1..Len(pairs) }

TextAlphabet == { "E", "t", " ", "#", "!" }
MorseAlphabet == { ".", "-", "/", " ", "\t", "x" }

SevenDots == << ".", ".", ".", ".", ".", ".", "." >>
FourDashes == << "-", "-", "-", "-" >>
HelloWorld == << "H", "E", "L", "L", "O", "!", "#", "W", "O", "R", "L", "D" >>
HiThere == << "H", "I", " ", "T", "H", "E", "R", "E" >>
Sos == << "S", "O", "S" >>

Texts ==
    BoundedSeq(TextAlphabet, MaxTextLen)
    \cup { << ch >> : ch \in CanonicalAlphabet }
    \cup { << LowerCase[i] >> : i \in 1..Len(LowerCase) }
    \cup { HelloWorld, HiThere, Sos }

MorseStrings ==
    BoundedSeq(MorseAlphabet, MaxMorseLen) \cup { SevenDots, FourDashes }

CodecInputs ==
    { [kind |-> "text", s |-> t] : t \in Texts }
    \cup { [kind |-> "morse", s |-> m] : m \in MorseStrings }

TextToMorse ==
    /\ cin.kind = "text"
    /\ cdone = {}
    /\ cmorse' = encode(codec, cin.s)
    /\ cdone' = { "encode" }
    /\ UNCHANGED << codec, cin, cdecoded, cvalid >>
    /\ UNCHANGED playerVars

MorseToText ==
    /\ cin.kind = "morse" \/ "encode" \in cdone
    /\ "decode" \notin cdone
    /\ cdecoded' = decode(codec, cmorse)
    /\ cdone' = cdone \cup { "decode" }
    /\ UNCHANGED << codec, cin, cmorse, cvalid >>
    /\ UNCHANGED playerVars

ValidateMorse ==
    /\ cin.kind = "morse" \/ "encode" \in cdone
    /\ "validate" \notin cdone
    /\ cvalid' = validate_morse(cmorse)
    /\ cdone' = cdone \cup { "validate" }
    /\ UNCHANGED << codec, cin, cmorse, cdecoded >>
    /\ UNCHANGED playerVars

(***************************************************************************)
(* f64 values                                                              *)
(***************************************************************************)
F64(thousandths) == [inf |-> FALSE, v |-> thousandths]
Infinity == [inf |-> TRUE, v |-> 0]

f64_add(a, b) == IF a.inf \/ b.inf THEN Infinity ELSE F64(a.v + b.v)
f64_mul(a, k) == IF a.inf THEN Infinity ELSE F64(a.v * k)
f64_div_1000(a) == IF a.inf THEN Infinity ELSE F64(a.v \div 1000)

\* 1200.0 / wpm
dot_duration_of(wpm) ==
    IF wpm = 0 THEN Infinity ELSE F64((1200 * 1000) \div wpm)

(***************************************************************************)
(* AudioPlayer                                                             *)
(***************************************************************************)
Wpms == { -20, 0, 20, 40 }
ClockValues == { F64(0), F64(2000) }

NewFails ==
    /\ player = "none"
    /\ player' = "err"
    /\ UNCHANGED << dot_duration, wpm_arg, current_time, pc, morse, cursor,
                    time, tones, result, calls >>
    /\ UNCHANGED codecVars

New(wpm) ==
    /\ player = "none"
    /\ player' = "ok"
    /\ dot_duration' = dot_duration_of(wpm)
    /\ wpm_arg' = wpm
    /\ UNCHANGED << current_time, pc, morse, cursor, time, tones, result, calls >>
    /\ UNCHANGED codecVars

SetWpmRetroactive(wpm) ==
    /\ player = "ok"
    /\ pc = "idle"
    /\ dot_duration' = dot_duration_of(wpm)
    /\ wpm_arg' = wpm
    /\ tones' = [i \in 1..Len(tones) |->
                    [tones[i] EXCEPT !.duration =
                        IF tones[i].duration = dot_duration
                        THEN dot_duration_of(wpm)
                        ELSE f64_mul(dot_duration_of(wpm), 3)]]
    /\ UNCHANGED << player, current_time, pc, morse, cursor, time, result, calls >>
    /\ UNCHANGED codecVars

SetWpm(wpm) ==
    /\ player = "ok"
    /\ pc = "idle"
    /\ dot_duration' = dot_duration_of(wpm)
    /\ wpm_arg' = wpm
    /\ UNCHANGED << player, current_time, pc, morse, cursor, time, tones,
                    result, calls >>
    /\ UNCHANGED codecVars

\* play_morse is entered: let mut time = self.context.current_time();
PlayMorse(inputs, maxCalls) ==
    /\ player = "ok"
    /\ pc = "idle"
    /\ calls < maxCalls
    /\ \E m \in inputs, now \in ClockValues :
          /\ now.v >= current_time.v
          /\ current_time' = now
          /\ time' = now
          /\ morse' = m
    /\ cursor' = 1
    /\ pc' = "playing"
    /\ result' = "none"
    /\ calls' = calls + 1
    /\ UNCHANGED << player, dot_duration, wpm_arg, tones >>
    /\ UNCHANGED codecVars

\* What play_tone asks of the backend: start_with_when(start_time) and
\* stop_with_when(start_time + duration / 1000.0).
play_tone(start_time, duration, ok) ==
    [call |-> calls, pos |-> cursor, start |-> start_time,
     duration |-> duration, stop |-> f64_add(start_time, f64_div_1000(duration)),
     ok |-> ok]

\* The `?` after play_tone: the loop goes on only after Ok.
swallow_error(ok) == TRUE

goes_on(ok) == ok

after_dot_millis(t, d) == f64_add(f64_add(t, d), d)

after_dot(t, d) == f64_add(f64_add(t, f64_div_1000(d)), f64_div_1000(d))

after_dash_no_gap(t, d) == f64_add(t, f64_div_1000(f64_mul(d, 3)))

after_dash(t, d) ==
    f64_add(f64_add(t, f64_div_1000(f64_mul(d, 3))), f64_div_1000(d))

after_space(t, d) == f64_add(t, f64_div_1000(f64_mul(d, 3)))

after_slash(t, d) == f64_add(t, f64_div_1000(f64_mul(d, 7)))

\* One `'.'` or `'-'` arm: play_tone(...)?, then the two `time +=`.
ToneArm(duration, after) ==
    \E ok \in BOOLEAN :
        /\ tones' = Append(tones, play_tone(time, duration, ok))
        /\ IF goes_on(ok)
           THEN /\ time' = after
                /\ cursor' = cursor + 1
                /\ UNCHANGED << pc, result >>
           ELSE /\ pc' = "idle"
                /\ result' = "err"
                /\ UNCHANGED << time, cursor >>

AtChar(ch) ==
    /\ pc = "playing"
    /\ cursor <= Len(morse)
    /\ morse[cursor] = ch

PlayDot ==
    /\ AtChar(".")
    /\ ToneArm(dot_duration, after_dot(time, dot_duration))
    /\ UNCHANGED << player, dot_duration, wpm_arg, current_time, morse, calls >>
    /\ UNCHANGED codecVars

PlayDash ==
    /\ AtChar("-")
    /\ ToneArm(f64_mul(dot_duration, 3), after_dash(time, dot_duration))
    /\ UNCHANGED << player, dot_duration, wpm_arg, current_time, morse, calls >>
    /\ UNCHANGED codecVars

PlaySpace ==
    /\ AtChar(" ")
    /\ time' = after_space(time, dot_duration)
    /\ cursor' = cursor + 1
    /\ UNCHANGED << player, dot_duration, wpm_arg, current_time, pc, morse,
                    tones, result, calls >>
    /\ UNCHANGED codecVars

PlaySlash ==
    /\ AtChar("/")
    /\ time' = after_slash(time, dot_duration)
    /\ cursor' = cursor + 1
    /\ UNCHANGED << player, dot_duration, wpm_arg, current_time, pc, morse,
                    tones, result, calls >>
    /\ UNCHANGED codecVars

PlayOther ==
    /\ pc = "playing"
    /\ cursor <= Len(morse)
    /\ morse[cursor] \notin { ".", "-", " ", "/" }
    /\ cursor' = cursor + 1
    /\ UNCHANGED << player, dot_duration, wpm_arg, current_time, pc, morse,
                    time, tones, result, calls >>
    /\ UNCHANGED codecVars

\* Ok(()) after the loop
PlayReturn ==
    /\ pc = "playing"
    /\ cursor > Len(morse)
    /\ pc' = "idle"
    /\ result' = "ok"
    /\ UNCHANGED << player, dot_duration, wpm_arg, current_time, morse, cursor,
                    time, tones, calls >>
    /\ UNCHANGED codecVars

PlayStep ==
    \/ PlayDot
    \/ PlayDash
    \/ PlaySpace
    \/ PlaySlash
    \/ PlayOther
    \/ PlayReturn

(***************************************************************************)
(* Specifications                                                          *)
(***************************************************************************)
MaxCalls == 2

PlayAlphabet == { ".", "-", " ", "/", "x" }
GapTexts == BoundedSeq({ "E", "A", " " }, MaxTextLen)
EncodedInputs == { encode(MorseCodec_new, t) : t \in GapTexts }
PlayInputs == BoundedSeq(PlayAlphabet, MaxMorseLen) \cup EncodedInputs

CallInputs ==
    { << "." >>, << ".", "-" >>, << "-", " ", "." >>, << "x", ".", "/", "-" >> }

NoInput == [kind |-> "none", s |-> <<>>]
NoCodec == [encode_map |-> <<>>, decode_map |-> <<>>]

PlayerInit ==
    /\ player = "none"
    /\ dot_duration = F64(0)
    /\ wpm_arg = 0
    /\ current_time = F64(0)
    /\ pc = "idle"
    /\ morse = <<>>
    /\ cursor = 0
    /\ time = F64(0)
    /\ tones = <<>>
    /\ result = "none"
    /\ calls = 0

\* A player driven through any sequence of set_wpm and play_morse calls; no
\* MorseWave is constructed beside it.
Init ==
    /\ PlayerInit
    /\ codec = NoCodec
    /\ cin = NoInput
    /\ cdone = {}
    /\ cmorse = <<>>
    /\ cdecoded = <<>>
    /\ cvalid = FALSE

Next ==
    \/ NewFails
    \/ \E w \in Wpms : New(w)
    \/ \E w \in Wpms : SetWpm(w)
    \/ PlayMorse(CallInputs, MaxCalls)
    \/ PlayStep

Spec == Init /\ [][Next]_vars

\* One play_morse call, over every Morse string of the bounded alphabet and
\* every string encode returns for the bounded texts.
NextPlay ==
    \/ NewFails
    \/ \E w \in Wpms : New(w)
    \/ \E w \in Wpms : SetWpm(w)
    \/ PlayMorse(PlayInputs, 1)
    \/ PlayStep

SpecPlay == Init /\ [][NextPlay]_vars

\* The codec applied to one argument.
CodecInit ==
    /\ PlayerInit
    /\ codec = MorseCodec_new
    /\ cin \in CodecInputs
    /\ cdone = {}
    /\ cmorse = (IF cin.kind = "morse" THEN cin.s ELSE <<>>)
    /\ cdecoded = <<>>
    /\ cvalid = FALSE

CodecNext ==
    \/ TextToMorse
    \/ MorseToText
    \/ ValidateMorse

SpecCodec == CodecInit /\ [][CodecNext]_vars

(***************************************************************************)
(* Claims about the codec (SpecCodec)                                      *)
(***************************************************************************)
IsMorseSymbol(ch) == ch \in { ".", "-", "/" }

Letters == { UpperCase[i] : i \in 1..Len(UpperCase) }
Digits == { "0", "1", "2", "3", "4", "5", "6", "7", "8", "9" }
Punctuation == CanonicalAlphabet \ (Letters \cup Digits \cup { " " })

\* C1: encoding one character of the canonical alphabet and decoding the
\* result returns that character, and no two characters of the table share
\* a code.
C1_RoundTrip ==
    /\ \A a, b \in DOMAIN codec.encode_map :
          a # b => codec.encode_map[a] # codec.encode_map[b]
    /\ ( /\ cin.kind = "text"
         /\ Len(cin.s) = 1
         /\ cin.s[1] \in CanonicalAlphabet
         /\ { "encode", "decode" } \subseteq cdone )
       => (cdecoded = cin.s /\ to_uppercase(cin.s) = cin.s)

\* The word separator has gone through encode and decode and come back.
C1_Witness ==
    /\ cin = [kind |-> "text", s |-> << " " >>]
    /\ { "encode", "decode" } \subseteq cdone
    /\ cmorse = << "/" >>
    /\ cdecoded = << " " >>

HasCode(ch) == ch \in DOMAIN codec.encode_map

\* C8: encode returns the codes of the mapped characters of the upper-cased
\* text, in order, separated by exactly one space: splitting the result on
\* spaces gives back exactly those codes (an input space gives the token
\* "/"), the result has no leading, trailing or doubled space, and it is
\* empty when no character is mapped.
C8_Encode ==
    (cin.kind = "text" /\ "encode" \in cdone) =>
        LET kept == SelectSeq(to_uppercase(cin.s), HasCode)
            toks == split(cmorse, " ")
        IN  /\ (kept = <<>>) => (cmorse = <<>>)
            /\ (kept # <<>>) =>
                  /\ Len(toks) = Len(kept)
                  /\ \A i \in 1..Len(kept) : toks[i] = codec.encode_map[kept[i]]
                  /\ \A i \in 1..Len(kept) : (kept[i] = " ") => (toks[i] = << "/" >>)
                  /\ cmorse[1] # " "
                  /\ cmorse[Len(cmorse)] # " "
                  /\ \A i \in 1..(Len(cmorse) - 1) :
                        ~(cmorse[i] = " " /\ cmorse[i + 1] = " ")

\* "HELLO!#WORLD" has been encoded: eleven codes, none for '#'.
C8_Witness ==
    /\ cin = [kind |-> "text", s |-> HelloWorld]
    /\ "encode" \in cdone
    /\ Len(split(cmorse, " ")) = 11
    /\ split(cmorse, " ")[6] = codec.encode_map["!"]

TableHolds(n, letters, digits, marks) ==
    /\ Len(pairs) = n
    /\ Cardinality(CanonicalAlphabet \cap Letters) = letters
    /\ Cardinality(CanonicalAlphabet \cap Digits) = digits
    /\ Cardinality(Punctuation) = marks
    /\ " " \in CanonicalAlphabet
    /\ Cardinality(DOMAIN codec.encode_map) = n
    /\ Cardinality(DOMAIN codec.decode_map) = n
    /\ \A i \in 1..Len(pairs) :
          /\ pairs[i][1] \in DOMAIN codec.encode_map
          /\ codec.encode_map[pairs[i][1]] = pairs[i][2]
          /\ pairs[i][2] \in DOMAIN codec.decode_map
          /\ codec.decode_map[pairs[i][2]] = pairs[i][1]

\* C10 as stated: the list has 56 entries (26 letters, 10 digits, 19
\* punctuation marks, 1 word separator) and each map holds those 56.
C10_Original == TableHolds(56, 26, 10, 19)

\* C10 amended: the list has 54 entries (26 letters, 10 digits, 17
\* punctuation marks, 1 word separator) and each map holds exactly those 54.
C10_Table == TableHolds(54, 26, 10, 17)

\* A constructed codec whose maps answer for the last entry of the list.
C10_Witness ==
    /\ codec = MorseCodec_new
    /\ codec.encode_map[" "] = << "/" >>
    /\ codec.decode_map[<< "/" >>] = " "
    /\ "encode" \in cdone

(***************************************************************************)
(* Claims about the player (Spec, SpecPlay)                                *)
(***************************************************************************)
IsTone(ch) == ch \in { ".", "-" }

\* The clock advance the timing table gives a character, in base units.
UnitsOf(ch) ==
    CASE ch = "." -> 2
      [] ch = "-" -> 4
      [] ch = " " -> 3
      [] ch = "/" -> 7
      [] OTHER -> 0

RECURSIVE SumUnits(_)
SumUnits(s) == IF s = <<>> THEN 0 ELSE UnitsOf(Head(s)) + SumUnits(Tail(s))

InThisCall(t) == t.call = calls
CallTones == SelectSeq(tones, InThisCall)

\* The positions of morse whose tone has been requested by this call: the
\* dots and dashes before the cursor, and the one at the cursor when its
\* play_tone failed.
RequestedPositions ==
    { i \in 1..(cursor - 1) : IsTone(morse[i]) }
    \cup (IF result = "err" THEN { cursor } ELSE {})

\* One base unit on the clock: dot_duration thousandths of a second.
ClockUnit == dot_duration.v \div 1000

\* C2: play_morse walks the string in order from the start time; when the
\* cursor has passed a prefix, the clock stands at the start time plus 2
\* units per dot, 4 per dash, 3 per space, 7 per slash and 0 per other
\* character of it; one tone has been requested per dot and dash, in string
\* order, at the clock value of its position, lasting 1 unit for a dot and 3
\* for a dash; a call that returned Ok requested as many tones as the string
\* has dots and dashes, and the empty string none.
C2_Schedule ==
    (player = "ok" /\ wpm_arg > 0 /\ calls >= 1) =>
        LET ct == CallTones
        IN  /\ Len(ct) = Cardinality(RequestedPositions)
            /\ \A k \in 1..Len(ct) : ct[k].pos \in RequestedPositions
            /\ \A k \in 1..(Len(ct) - 1) : ct[k].pos < ct[k + 1].pos
            /\ (pc = "playing") =>
                  /\ time = F64(current_time.v
                                + SumUnits(SubSeq(morse, 1, cursor - 1)) * ClockUnit)
                  /\ \A k \in 1..Len(ct) :
                        /\ ct[k].start =
                              F64(current_time.v
                                  + SumUnits(SubSeq(morse, 1, ct[k].pos - 1)) * ClockUnit)
                        /\ ct[k].duration =
                              F64(dot_duration.v
                                  * (IF morse[ct[k].pos] = "." THEN 1 ELSE 3))
            /\ (pc = "idle" /\ result = "ok") =>
                  /\ cursor = Len(morse) + 1
                  /\ Len(ct) = Cardinality({ i \in 1..Len(morse) : IsTone(morse[i]) })
            /\ (morse = <<>>) => (ct = <<>>)

\* ".- / .-" has been walked to its end at 20 wpm from time 0: four tones,
\* and the clock 25 units of 0.06 s on.
C2_Witness ==
    /\ wpm_arg = 20
    /\ morse = << ".", "-", " ", "/", " ", ".", "-" >>
    /\ pc = "playing"
    /\ cursor = 8
    /\ current_time = F64(0)
    /\ time = F64(1500)
    /\ Len(CallTones) = 4

StartsAndDurations(ts) == [k \in 1..Len(ts) |-> << ts[k].start, ts[k].duration >>]

\* The loop of a call made at 20 wpm from time 0 has passed the whole string.
AtEndOfCallAt20 ==
    /\ player = "ok"
    /\ wpm_arg = 20
    /\ pc = "playing"
    /\ cursor = Len(morse) + 1
    /\ current_time = F64(0)

\* C3 as stated: start and duration are in the unit of baseUnit; at 20 wpm
\* from time 0, "." requests (0, 60), "-" requests (0, 180) and ".-"
\* requests (0, 60) then (120, 180).
C3_Original ==
    AtEndOfCallAt20 =>
        /\ (morse = << "." >>) =>
              StartsAndDurations(CallTones) = << << F64(0), F64(60000) >> >>
        /\ (morse = << "-" >>) =>
              StartsAndDurations(CallTones) = << << F64(0), F64(180000) >> >>
        /\ (morse = << ".", "-" >>) =>
              StartsAndDurations(CallTones) =
                  << << F64(0), F64(60000) >>, << F64(120000), F64(180000) >> >>

\* C3 amended: the duration is in milliseconds, the unit of baseUnit, and the
\* start is on the AudioContext clock, in seconds, where a base unit is
\* baseUnit / 1000: at 20 wpm from time 0, "." requests (0, 60), "-"
\* requests (0, 180) and ".-" requests (0, 60) then (0.12, 180); every tone
\* is stopped duration / 1000 after its start.
C3_Units ==
    /\ AtEndOfCallAt20 =>
          /\ (morse = << "." >>) =>
                StartsAndDurations(CallTones) = << << F64(0), F64(60000) >> >>
          /\ (morse = << "-" >>) =>
                StartsAndDurations(CallTones) = << << F64(0), F64(180000) >> >>
          /\ (morse = << ".", "-" >>) =>
                StartsAndDurations(CallTones) =
                    << << F64(0), F64(60000) >>, << F64(120), F64(180000) >> >>
    /\ \A i \in 1..Len(tones) :
          (~tones[i].duration.inf) =>
              tones[i].stop = F64(tones[i].start.v + tones[i].duration.v \div 1000)

\* ".-" has been played at 20 wpm from time 0 and its dash starts at 0.12.
C3_Witness ==
    /\ AtEndOfCallAt20
    /\ morse = << ".", "-" >>
    /\ Len(CallTones) = 2
    /\ CallTones[2].start = F64(120)
    /\ CallTones[2].ok

\* C4 as stated: in a string encode returned, the silence from the stop of
\* a letter's last tone to the start of the next letter's first tone is 3
\* base units across one space and 7 base units across " / ".
C4_Gaps ==
    (player = "ok" /\ wpm_arg > 0 /\ pc = "playing" /\ morse \in EncodedInputs) =>
        LET ct == CallTones
        IN  \A k \in 1..(Len(ct) - 1) :
                LET between == SubSeq(morse, ct[k].pos + 1, ct[k + 1].pos - 1)
                    silence == ct[k + 1].start.v - ct[k].stop.v
                IN  /\ (between = << " " >>) => (silence = 3 * ClockUnit)
                    /\ (between = << " ", "/", " " >>) => (silence = 7 * ClockUnit)

\* C5 as stated: no player holds a zero, negative or infinite base unit, and
\* a non-positive speed gives no player.
C5_FailFast ==
    (player = "ok") =>
        /\ wpm_arg > 0
        /\ ~dot_duration.inf
        /\ dot_duration.v > 0

FailedAt(i) == ~tones[i].ok

\* C6: a failed play_tone ends its call: no later tone is requested in that
\* call, none is requested twice, play_morse has returned the error when the
\* last tone of the call failed, and returns Ok only past the last character
\* with every tone realized; a call that has not returned can always take
\* its next step; no step removes or alters a tone already requested.
C6_Propagates ==
    /\ [](/\ \A i \in 1..Len(tones) :
                FailedAt(i) =>
                    \A j \in (i + 1)..Len(tones) : tones[j].call # tones[i].call
          /\ \A i \in 1..Len(tones) :
                \A j \in (i + 1)..Len(tones) :
                    (tones[j].call = tones[i].call) => (tones[i].pos < tones[j].pos)
          /\ (calls >= 1) =>
                /\ (result = "err") <=>
                      (CallTones # <<>> /\ ~CallTones[Len(CallTones)].ok)
                /\ (result = "err") => (pc = "idle")
                /\ (result = "ok") =>
                      /\ pc = "idle"
                      /\ cursor = Len(morse) + 1
                      /\ \A k \in 1..Len(CallTones) : CallTones[k].ok
          /\ (pc = "playing") => ENABLED PlayStep)
    /\ [][/\ Len(tones') >= Len(tones)
          /\ SubSeq(tones', 1, Len(tones)) = tones]_vars

\* The second tone of "..." failed: play_morse returned the error with the
\* third dot never requested and the first tone still in the log.
C6_Witness ==
    /\ morse = << ".", ".", "." >>
    /\ pc = "idle"
    /\ result = "err"
    /\ cursor = 2
    /\ Len(CallTones) = 2
    /\ CallTones[1].ok
    /\ ~CallTones[2].ok

OtherPlayerVars ==
    << player, current_time, pc, morse, cursor, time, tones, result, calls >>

\* C7: a step that changes the speed of a player changes only the base unit,
\* to 1200 / w, and happens between calls; a tone, once requested, is never
\* changed; a tone is requested with the base unit of that moment (1 unit
\* for a dot, 3 for a dash) and the clock advances by multiples of it; the
\* base unit does not change during a call.
C7_SetWpm ==
    /\ [][(player = "ok" /\ (dot_duration' # dot_duration \/ wpm_arg' # wpm_arg)) =>
             /\ pc = "idle"
             /\ UNCHANGED OtherPlayerVars
             /\ IF wpm_arg' = 0 THEN dot_duration'.inf
                ELSE ~dot_duration'.inf /\ dot_duration'.v * wpm_arg' = 1200 * 1000]_vars
    /\ [][/\ Len(tones') >= Len(tones)
          /\ SubSeq(tones', 1, Len(tones)) = tones]_vars
    /\ [][(tones' # tones) =>
             /\ pc = "playing"
             /\ Len(tones') = Len(tones) + 1
             /\ LET new == tones'[Len(tones')]
                IN  /\ new.call = calls
                    /\ new.start = time
                    /\ new.duration =
                          (IF morse[cursor] = "." THEN dot_duration
                           ELSE f64_mul(dot_duration, 3))]_vars
    /\ [][(pc = "playing" /\ ~dot_duration.inf) =>
             /\ dot_duration' = dot_duration
             /\ (cursor' # cursor) =>
                    time' = F64(time.v + UnitsOf(morse[cursor]) * ClockUnit)]_vars

\* A dot requested at 20 wpm lasts 60 ms and stays so after set_wpm(40),
\* while a dot of the next call lasts 30 ms.
C7_Witness ==
    /\ wpm_arg = 40
    /\ \E i, j \in 1..Len(tones) :
          /\ tones[i].call = 1
          /\ tones[j].call = 2
          /\ tones[i].duration = F64(60000)
          /\ tones[j].duration = F64(30000)

====
